---- MODULE Spec2Model ----
(***************************************************************************)
(* Nephelios: the manifest store (./nephelios.yml handled by               *)
(* traefik_helper.rs) and the request handlers of routes.rs that read and  *)
(* mutate it.                                                              *)
(*                                                                         *)
(* Text is modelled as text.  A line is a string; the file content is the  *)
(* sequence of its newline-terminated lines, so that content.lines() is    *)
(* the identity on the sequence and writing a line followed by '\n'        *)
(* appends one element.  The only character that cannot be written in a    *)
(* string here is the backquote of the Host(...) routing label, which is   *)
(* written as an apostrophe; no name contains either character.            *)
(***************************************************************************)
EXTENDS Integers, Sequences, FiniteSets, TLC

VARIABLES
    manifest,   \* the lines of ./nephelios.yml
    workspace,  \* state of the directory .<name>-tmp of each application name
    job,        \* the deployment tasks spawned by handle_create_app
    nrequests,    \* number of /create and /remove requests received so far
    nadd,       \* number of add_to_deploy calls that returned Ok, per name
    rm,         \* the handle_remove_app request in flight
    call,       \* the last call made on the store by a single caller
    ncalls,     \* number of mutating calls made by that caller
    channel,    \* the broadcast channel of deployment status updates
    conn,       \* the WebSocket connections and their forwarding tasks
    swarm,      \* replicas of the services of the nephelios stack in the swarm
    proc        \* the process: its server, the signal it received, its teardown

vars == <<manifest, workspace, job, nrequests, nadd, rm, call, ncalls, channel, conn, swarm, proc>>

(***************************************************************************)
(* Bounds and input sets.                                                  *)
(***************************************************************************)
MaxCalls == 2

MaxRequests == 3

AppNames == {"app", "app2", "deploy", "traefik"}

Jobs == {1, 2}

JobNames == {"app", "blog"}

\* The names a request body may carry: app_name is not checked, so the empty
\* string is one of them.
BodyNames == JobNames \cup {""}

\* warp::http::StatusCode
CREATED == 201

BAD_REQUEST == 400

RepoUrl == "https://github.com/org/repo"

GithubUrls == {"", RepoUrl}

\* Utc::now().to_rfc3339() at the creation of the metadata.
Now == "2025-01-01T00:00:00+00:00"

ReplicaValues == {0, 3}

\* Number of status updates sent on the channel.
MaxEvents == 5

\* broadcast::channel(32) and mpsc::channel(32), scaled down.
BusCapacity == 2

QueueCapacity == 1

Conns == {1, 2}

\* The services the swarm may run for the stack.
ServiceNames == AppNames \cup BodyNames \cup {"registry"}

(***************************************************************************)
(* str primitives used by the helpers.                                     *)
(***************************************************************************)
starts_with(s, p) == Len(s) >= Len(p) /\ SubSeq(s, 1, Len(p)) = p

contains(s, p) == \E i \in 1..(Len(s) - Len(p) + 1) : SubSeq(s, i, i + Len(p) - 1) = p

content_contains(content, p) == p = "" \/ \E l \in 1..Len(content) : contains(content[l], p)

Digit == <<"0", "1", "2", "3", "4", "5", "6", "7", "8", "9">>

RECURSIVE to_string(_)
to_string(n) == IF n < 10 THEN Digit[n + 1] ELSE to_string(n \div 10) \o Digit[(n % 10) + 1]

is_digit(c) == \E d \in 1..10 : Digit[d] = c

is_space(c) == c \in {" ", "\t"}

is_word(c) == \/ is_digit(c)
              \/ c = "_"
              \/ contains("abcdefghijklmnopqrstuvwxyzABCDEFGHIJKLMNOPQRSTUVWXYZ", c) /\ Len(c) = 1

\* Index of the first character of s at or after position i that is not
\* whitespace (Len(s) + 1 when there is none): what \s* consumes on a line.
RECURSIVE skip_space(_, _)
skip_space(s, i) == IF i <= Len(s) /\ is_space(SubSeq(s, i, i)) THEN skip_space(s, i + 1) ELSE i

\* Index after the run of digits of s starting at position i: \d+ is greedy.
RECURSIVE skip_digits(_, _)
skip_digits(s, i) == IF i <= Len(s) /\ is_digit(SubSeq(s, i, i)) THEN skip_digits(s, i + 1) ELSE i

(***************************************************************************)
(* AppMetadata::new                                                        *)
(***************************************************************************)
AppMetadata_new_bare(app_name, app_type, github_url, now) ==
    [app_name |-> app_name, app_type |-> app_type, github_url |-> github_url,
     domain |-> app_name, created_at |-> now]

AppMetadata_new(app_name, app_type, github_url, now) ==
    [app_name |-> app_name, app_type |-> app_type, github_url |-> github_url,
     domain |-> app_name \o ".localhost", created_at |-> now]

DefaultMetadata(app_name) ==
    AppMetadata_new(app_name, "nodejs", RepoUrl, Now)

(***************************************************************************)
(* verif_app: 1 when the text of the file contains the name anywhere.      *)
(***************************************************************************)
verif_app(content, app) == IF content_contains(content, app) THEN 1 ELSE 0

(***************************************************************************)
(* add_to_deploy: the text appended to the file, line by line.  The        *)
(* format string ends with an empty line.                                  *)
(***************************************************************************)
add_replicas == 1

resultat(app, port, metadata) ==
    LET service == app
        image == app
        replicas == add_replicas
    IN << "  " \o service \o ":",
          "    image: registry:5000/" \o image \o ":latest",
          "    deploy:",
          "        mode: replicated",
          "        replicas: " \o to_string(replicas),
          "        resources:",
          "            limits:",
          "                cpus: \"1.5\"      # Maximum 1.5 CPU cores",
          "                memory: 1G       # Maximum 1GB RAM",
          "            reservations:",
          "                cpus: \"0.5\"      # Reserve at least 0.5 CPU cores",
          "                memory: 256M     # Reserve at least 256MB RAM",
          "        labels:",
          "          - \"traefik.enable=true\"",
          "          - \"traefik.http.routers." \o service \o ".rule=Host('" \o app \o ".localhost')\"",
          "          - \"traefik.http.routers." \o service \o ".entrypoints=web,websecure\"",
          "          - \"traefik.http.routers." \o service \o ".tls.certresolver=myresolver\"",
          "          - \"traefik.http.services." \o service \o ".loadbalancer.server.port=" \o port \o "\"",
          "          - \"com.myapp.name=" \o app \o "\"",
          "          - \"com.myapp.image=" \o image \o ":latest\"",
          "          - \"com.myapp.type=" \o metadata.app_type \o "\"",
          "          - \"com.myapp.github_url=" \o metadata.github_url \o "\"",
          "          - \"com.myapp.domain=" \o metadata.domain \o "\"",
          "          - \"com.myapp.created_at=" \o metadata.created_at \o "\"",
          "    networks:",
          "        - nephelios_overlay",
          "" >>

\* Mutant: the file opened with create/truncate instead of append.
add_to_deploy_truncating(content, app, port, metadata) ==
    [content |-> resultat(app, port, metadata), result |-> "Ok"]

\* The file is opened in append mode and the block is written at its end;
\* the function has no other outcome than Ok for a writable file.
add_to_deploy(content, app, port, metadata) ==
    [content |-> content \o resultat(app, port, metadata), result |-> "Ok"]

(***************************************************************************)
(* remove_app_compose: the loop over content.lines().                      *)
(***************************************************************************)
RECURSIVE remove_loop(_, _, _, _, _)
remove_loop(content, app_name, i, in_service, new_content) ==
    IF i > Len(content) THEN new_content
    ELSE LET line == content[i] IN
         IF starts_with(line, "  ") /\ in_service
         THEN remove_loop(content, app_name, i + 1, in_service, new_content)
         ELSE IF starts_with(line, "  " \o app_name \o ":")
         THEN remove_loop(content, app_name, i + 1, TRUE, new_content)
         ELSE LET in_service2 == IF ~starts_with(line, "  ") THEN FALSE ELSE in_service
              IN remove_loop(content, app_name, i + 1, in_service2,
                             IF ~in_service2 THEN Append(new_content, line) ELSE new_content)

remove_app_compose(content, app_name) ==
    [content |-> remove_loop(content, app_name, 1, FALSE, <<>>), result |-> "Ok"]

(***************************************************************************)
(* update_app_replicas.  The pattern                                       *)
(*   (?m) ^ ( \s* NAME: \s* (?: \r?\n .*? )*? \b replicas: \s* ) ( \d+ )   *)
(* (spaces added between the tokens)                                       *)
(* is matched line by line: a match begins on a line made of optional      *)
(* whitespace, NAME and a colon (at any indentation), and ends at the      *)
(* first later `replicas:` that stands at a word boundary and is followed  *)
(* by digits, however many lines lie between.  replace_all rewrites the    *)
(* digits of every such match, resuming the search after each one.  No     *)
(* line of the modelled documents ends in `replicas:`, so the digits are   *)
(* looked for on the line of `replicas:` itself.                           *)
(***************************************************************************)
\* Position after `\s*NAME:\s*` on the line, 0 when the line does not begin so.
header_end(line, app_name) ==
    LET a == skip_space(line, 1)
        b == a + Len(app_name) + 1
    IN IF b - 1 <= Len(line) /\ SubSeq(line, a, b - 1) = app_name \o ":"
       THEN skip_space(line, b) ELSE 0

replicas_at(line, p) ==
    /\ p + 8 <= Len(line)
    /\ SubSeq(line, p, p + 8) = "replicas:"
    /\ (p = 1 \/ ~is_word(SubSeq(line, p - 1, p - 1)))
    /\ LET d == skip_space(line, p + 9) IN d <= Len(line) /\ is_digit(SubSeq(line, d, d))

\* First position at or after `from` where `\breplicas:\s*\d+` matches, else 0.
first_replicas(line, from) ==
    LET S == {p \in from..Len(line) : replicas_at(line, p)}
    IN IF S = {} THEN 0 ELSE CHOOSE p \in S : \A q \in S : p <= q

\* format!("{}{}", &caps[1], replicas): the digits are replaced, the rest kept.
replace_digits(line, p, replicas) ==
    LET d == skip_space(line, p + 9)
        e == skip_digits(line, d)
    IN SubSeq(line, 1, d - 1) \o to_string(replicas) \o SubSeq(line, e, Len(line))

\* The line opens a match that has to be completed on a later line.
match_open(line, app_name) ==
    header_end(line, app_name) = Len(line) + 1 /\ first_replicas(line, 1) = 0

\* The lines that open a match, and the lines where an open match would end.
opened(content, app_name) == {o \in 1..Len(content) : match_open(content[o], app_name)}

closing(content) == {m \in 1..Len(content) : first_replicas(content[m], 1) # 0}

\* A match opened on an earlier line is still looking for its `replicas:`
\* when line i is reached: the lazy repetition stops at the first one.
pending(O, C, i) == \E o \in O : o < i /\ \A m \in C : ~(o < m /\ m < i)

\* Position of the `replicas:` that completes a match on line i, else 0.
\* A search in progress may stop anywhere on the line; a line that opens a
\* match may only continue with `replicas:` at once.
match_end(content, app_name, O, C, i) ==
    LET line == content[i]
        h == header_end(line, app_name)
    IN IF pending(O, C, i) THEN first_replicas(line, 1)
       ELSE IF h # 0 /\ replicas_at(line, h) THEN h ELSE 0

\* The lines on which a match ends.
matches(content, app_name) ==
    LET O == opened(content, app_name)
        C == closing(content)
    IN {i \in 1..Len(content) : match_end(content, app_name, O, C, i) # 0}

is_match(content, app_name) == matches(content, app_name) # {}

\* Every match is rewritten, the search resuming after each one.
replace_all(content, app_name, replicas) ==
    LET O == opened(content, app_name)
        C == closing(content)
        M == matches(content, app_name)
    IN [i \in 1..Len(content) |->
           IF i \in M
           THEN replace_digits(content[i], match_end(content, app_name, O, C, i), replicas)
           ELSE content[i]]

update_app_replicas(content, app_name, replicas) ==
    IF ~content_contains(content, app_name \o ":")
    THEN [content |-> content, result |-> "NotFound"]
    ELSE IF is_match(content, app_name)
         THEN [content |-> replace_all(content, app_name, replicas), result |-> "Ok"]
         ELSE [content |-> content, result |-> "NotFound"]

(***************************************************************************)
(* The documents the server starts from.  ./nephelios.yml is deployed by   *)
(* main before the routes are served; it declares the overlay network and  *)
(* the infrastructure services, `services:` being its last section since   *)
(* add_to_deploy appends to the end of the file.                           *)
(***************************************************************************)
MinimalDoc == << "services:" >>

InfraDoc ==
    << "networks:",
       "  nephelios_overlay:",
       "    external: true",
       "services:",
       "  traefik:",
       "    image: traefik:v2.10",
       "    deploy:",
       "        replicas: 1",
       "  registry:",
       "    image: registry:2",
       "    deploy:",
       "        replicas: 1" >>

InitialDocs == {MinimalDoc, InfraDoc}

\* broadcast::channel: tail is the number of values sent so far; the ring
\* keeps the last BusCapacity of them.
NewChannel == [tail |-> 0]

\* A connection slot before its upgrade: the broadcast receiver (next is the
\* position it reads next, start the position it was created at, lagged the
\* number of values it was told it missed), the task forwarding from the
\* channel to the queue (fwd, holding msg while it waits for room), the
\* mpsc queue, the task writing the queue to the socket (out), and the
\* messages written to the socket.
NoConn == [status |-> "none", start |-> 0, next |-> 0, lagged |-> 0, fwd |-> "none", msg |-> 0,
           queue |-> <<>>, out |-> "none", delivered |-> <<>>]

\* A service that does not exist in the swarm.
Absent == -1

\* The process once main has started the stack and spawned the server: the
\* signal received, whether the server accepts connections, where main is,
\* the results of the two teardown steps and what was printed about them.
Serving == [pc |-> "serving", signal |-> "none", server |-> "accepting",
            detach |-> "none", stack_rm |-> "none", log |-> {}]

NoCall == [op |-> "none", name |-> "", k |-> 0, result |-> "", found |-> -1, before |-> <<>>]

\* A task slot: its position, its inputs, the updates it has sent, the reply
\* of the handler that spawned it, what it did with its workspace when it
\* failed, and the collaborators that reported an error on their stream.
IdleJob == [pc |-> "idle", name |-> "", url |-> "", path |-> "", added |-> FALSE, events |-> <<>>,
            response |-> 0, cleanup |-> "none", reported |-> {}]

IdleRm == [pc |-> "idle", name |-> "", new_content |-> <<>>]

(***************************************************************************)
(* The manifest store called by one caller at a time: every call runs to   *)
(* completion on the file before the next one starts.                      *)
(***************************************************************************)
StoreInit ==
    /\ manifest \in InitialDocs
    /\ workspace = [n \in BodyNames |-> "absent"]
    /\ job = [j \in Jobs |-> IdleJob]
    /\ nrequests = 0
    /\ nadd = [n \in BodyNames |-> 0]
    /\ rm = IdleRm
    /\ call = NoCall
    /\ ncalls = 0
    /\ channel = NewChannel
    /\ conn = [c \in Conns |-> NoConn]
    /\ swarm = [n \in ServiceNames |-> Absent]
    /\ proc = Serving

Exists(n) ==
    /\ call' = [op |-> "exists", name |-> n, k |-> 0, result |-> "Ok",
                found |-> verif_app(manifest, n), before |-> manifest]
    /\ UNCHANGED <<manifest, ncalls, workspace, job, nrequests, nadd, rm, channel, conn, swarm, proc>>

Add(n) ==
    /\ ncalls < MaxCalls
    /\ LET r == add_to_deploy(manifest, n, "3000", DefaultMetadata(n))
       IN /\ manifest' = r.content
          /\ call' = [op |-> "add", name |-> n, k |-> add_replicas, result |-> r.result,
                      found |-> -1, before |-> manifest]
    /\ ncalls' = ncalls + 1
    /\ UNCHANGED <<workspace, job, nrequests, nadd, rm, channel, conn, swarm, proc>>

Remove(n) ==
    /\ ncalls < MaxCalls
    /\ LET r == remove_app_compose(manifest, n)
       IN /\ manifest' = r.content
          /\ call' = [op |-> "remove", name |-> n, k |-> 0, result |-> r.result,
                      found |-> -1, before |-> manifest]
    /\ ncalls' = ncalls + 1
    /\ UNCHANGED <<workspace, job, nrequests, nadd, rm, channel, conn, swarm, proc>>

SetReplicas(n, k) ==
    /\ ncalls < MaxCalls
    /\ LET r == update_app_replicas(manifest, n, k)
       IN /\ manifest' = r.content
          /\ call' = [op |-> "set_replicas", name |-> n, k |-> k, result |-> r.result,
                      found |-> -1, before |-> manifest]
    /\ ncalls' = ncalls + 1
    /\ UNCHANGED <<workspace, job, nrequests, nadd, rm, channel, conn, swarm, proc>>

StoreNext ==
    \/ \E n \in AppNames : Exists(n)
    \/ \E n \in AppNames : Add(n)
    \/ \E n \in AppNames : Remove(n)
    \/ \E n \in AppNames, k \in ReplicaValues : SetReplicas(n, k)

SpecStore == StoreInit /\ [][StoreNext]_vars

(***************************************************************************)
(* The file as the operating system keeps it.  File::create truncates it,  *)
(* and the write_all that follows writes at offset 0 of whatever the file  *)
(* holds by then: bytes beyond the written length survive.                 *)
(***************************************************************************)
RECURSIVE byte_len(_)
byte_len(content) == IF content = <<>> THEN 0 ELSE Len(Head(content)) + 1 + byte_len(Tail(content))

RECURSIVE drop_bytes(_, _)
drop_bytes(content, n) ==
    IF content = <<>> \/ n = 0 THEN content
    ELSE IF n >= Len(Head(content)) + 1
         THEN drop_bytes(Tail(content), n - (Len(Head(content)) + 1))
         ELSE <<SubSeq(Head(content), n + 1, Len(Head(content)))>> \o Tail(content)

write_at_start(file, new_content) == new_content \o drop_bytes(file, byte_len(new_content))

(***************************************************************************)
(* send_deployment_status, as the sequence of updates a task has sent.     *)
(***************************************************************************)
\* Option<Value>, the payload of an update.
None == {}

Some(value) == {value}

send_deployment_status(events, status, step, payload) ==
    Append(events, [status |-> status, step |-> step, payload |-> payload])

(***************************************************************************)
(* github_helper.rs: the workspace directory of an application name.       *)
(***************************************************************************)
create_temp_dir(ws, app_name) == [ws EXCEPT ![app_name] = IF @ = "absent" THEN "empty" ELSE @]

remove_temp_dir(ws, app_name) == [ws EXCEPT ![app_name] = "absent"]

(***************************************************************************)
(* handle_create_app: the spawned task, one action per call it makes.      *)
(* Tasks run on the worker threads of the runtime, so the calls of         *)
(* different tasks interleave freely.                                      *)
(***************************************************************************)
\* let metadata = AppMetadata::new(..) of the task.
JobMetadata(j) == AppMetadata_new(job[j].name, "nodejs", job[j].url, Now)

Fail(j, ws, step, cleanup) ==
    /\ workspace' = ws
    /\ job' = [job EXCEPT ![j].pc = "failed",
                          ![j].events = send_deployment_status(@, "error", step, None),
                          ![j].cleanup = cleanup]

\* let _ = remove_temp_dir(&temp_dir) before the error update: the directory
\* is removed, or stays when remove_dir_all fails (the result is dropped).
FailAfterCleanup(j, step) ==
    \/ Fail(j, remove_temp_dir(workspace, job[j].name), step, "removed")
    \/ Fail(j, workspace, step, "failed")

\* A task slot is free before its first task and after its task has returned;
\* slots are taken in order, their numbering being arbitrary.
Terminated(j) == job[j].pc \in {"rejected", "failed", "done"}

Submit(j, app_name, github_url) ==
    /\ nrequests < MaxRequests
    /\ job[j].pc = "idle" \/ Terminated(j)
    /\ \A i \in Jobs : i < j => job[i].pc # "idle"
    /\ job' = [job EXCEPT ![j] = [IdleJob EXCEPT !.pc = "validate", !.name = app_name, !.url = github_url,
                                                  !.response = CREATED]]
    /\ nrequests' = nrequests + 1
    /\ UNCHANGED <<manifest, workspace, nadd, rm, call, ncalls, channel, conn, swarm, proc>>

Validate_unchecked(j) ==
    /\ job[j].pc = "validate"
    /\ job' = [job EXCEPT ![j].pc = "create_temp_dir",
                          ![j].events = send_deployment_status(@, "in_progress", "Cloning repository", None)]
    /\ UNCHANGED <<manifest, workspace, nrequests, nadd, rm, call, ncalls, channel, conn, swarm, proc>>

\* The 400 reply built for a missing or empty github_url is the value of the
\* spawned task, which the handler drops.
Validate(j) ==
    /\ job[j].pc = "validate"
    /\ IF job[j].url = ""
       THEN job' = [job EXCEPT ![j].pc = "rejected",
                               ![j].events = send_deployment_status(@, "error", "GitHub URL is required", None)]
       ELSE job' = [job EXCEPT ![j].pc = "create_temp_dir",
                               ![j].events = send_deployment_status(@, "in_progress", "Cloning repository", None)]
    /\ UNCHANGED <<manifest, workspace, nrequests, nadd, rm, call, ncalls, channel, conn, swarm, proc>>

CreateTempDir(j) ==
    /\ job[j].pc = "create_temp_dir"
    /\ \/ /\ workspace' = create_temp_dir(workspace, job[j].name)
          /\ job' = [job EXCEPT ![j].pc = "clone_repo"]
       \/ Fail(j, workspace, "Failed to create temp directory", "none")
       \/ Fail(j, create_temp_dir(workspace, job[j].name), "Invalid temp directory path", "none")
    /\ UNCHANGED <<manifest, nrequests, nadd, rm, call, ncalls, channel, conn, swarm, proc>>

CloneRepo_retrying(j) ==
    /\ job[j].pc = "clone_repo"
    /\ \/ /\ workspace[job[j].name] # "cloned"
          /\ workspace' = [workspace EXCEPT ![job[j].name] = "cloned"]
          /\ job' = [job EXCEPT ![j].pc = "generate_dockerfile"]
       \/ /\ workspace' = remove_temp_dir(workspace, job[j].name)
          /\ job' = [job EXCEPT ![j].events =
                                    send_deployment_status(@, "error", "Failed to clone repository", None)]
    /\ UNCHANGED <<manifest, nrequests, nadd, rm, call, ncalls, channel, conn, swarm, proc>>

\* git clone succeeds only into a directory that is missing or empty.
CloneRepo(j) ==
    /\ job[j].pc = "clone_repo"
    /\ \/ /\ workspace[job[j].name] # "cloned"
          /\ workspace' = [workspace EXCEPT ![job[j].name] = "cloned"]
          /\ job' = [job EXCEPT ![j].pc = "generate_dockerfile"]
       \/ FailAfterCleanup(j, "Failed to clone repository")
    /\ UNCHANGED <<manifest, nrequests, nadd, rm, call, ncalls, channel, conn, swarm, proc>>

\* File::create of the Dockerfile needs the directory to exist.
GenerateDockerfile(j) ==
    /\ job[j].pc = "generate_dockerfile"
    /\ \/ /\ workspace[job[j].name] # "absent"
          /\ job' = [job EXCEPT ![j].pc = "build_image",
                                ![j].events = send_deployment_status(
                                                 send_deployment_status(@, "success", "Cloning repository", None),
                                                 "in_progress", "Building Docker image", None)]
          /\ UNCHANGED workspace
       \/ FailAfterCleanup(j, "Failed to generate Dockerfile")
    /\ UNCHANGED <<manifest, nrequests, nadd, rm, call, ncalls, channel, conn, swarm, proc>>

\* build_image fails when the daemon or the build context cannot be set up;
\* errors reported on the build stream are printed and the call returns Ok.
BuildImage(j) ==
    /\ job[j].pc = "build_image"
    /\ \/ /\ workspace[job[j].name] # "absent"
          /\ job' = [job EXCEPT ![j].pc = "push_image",
                                ![j].events = send_deployment_status(@, "success", "Building Docker image", None)]
          /\ UNCHANGED workspace
       \/ FailAfterCleanup(j, "Failed to build Docker image")
    /\ UNCHANGED <<manifest, nrequests, nadd, rm, call, ncalls, channel, conn, swarm, proc>>

\* A failed push returns from the task without an update and without cleanup.
PushImage(j) ==
    /\ job[j].pc = "push_image"
    /\ \/ job' = [job EXCEPT ![j].pc = "verif_app",
                             ![j].events = send_deployment_status(@, "in_progress", "Starting deployment", None)]
       \/ job' = [job EXCEPT ![j].pc = "failed"]
    /\ UNCHANGED <<manifest, workspace, nrequests, nadd, rm, call, ncalls, channel, conn, swarm, proc>>

\* The daemon reports a failed build as an item of the build stream: the
\* loop prints it and build_image returns Ok.
BuildImageStreamError(j) ==
    /\ job[j].pc = "build_image"
    /\ workspace[job[j].name] # "absent"
    /\ job' = [job EXCEPT ![j].pc = "push_image",
                          ![j].events = send_deployment_status(@, "success", "Building Docker image", None),
                          ![j].reported = @ \cup {"build"}]
    /\ UNCHANGED <<manifest, workspace, nrequests, nadd, rm, call, ncalls, channel, conn, swarm, proc>>

\* The registry refuses the push as an item of the push stream: the loop
\* prints it and push_image returns Ok.
PushImageStreamError(j) ==
    /\ job[j].pc = "push_image"
    /\ job' = [job EXCEPT ![j].pc = "verif_app",
                          ![j].events = send_deployment_status(@, "in_progress", "Starting deployment", None),
                          ![j].reported = @ \cup {"push"}]
    /\ UNCHANGED <<manifest, workspace, nrequests, nadd, rm, call, ncalls, channel, conn, swarm, proc>>

VerifApp(j) ==
    /\ job[j].pc = "verif_app"
    /\ IF verif_app(manifest, job[j].name) = 1
       THEN job' = [job EXCEPT ![j].pc = "deploy", ![j].path = "update"]
       ELSE job' = [job EXCEPT ![j].pc = "add_to_deploy", ![j].path = "create"]
    /\ UNCHANGED <<manifest, workspace, nrequests, nadd, rm, call, ncalls, channel, conn, swarm, proc>>

AddToDeploy(j) ==
    /\ job[j].pc = "add_to_deploy"
    /\ \/ LET metadata == JobMetadata(j)
              r == add_to_deploy(manifest, job[j].name, "3000", metadata)
          IN /\ manifest' = r.content
             /\ job' = [job EXCEPT ![j].pc = "deploy", ![j].added = TRUE]
             /\ nadd' = [nadd EXCEPT ![job[j].name] = @ + 1]
             /\ UNCHANGED workspace
       \/ /\ FailAfterCleanup(j, "Failed to add app to deploy file")
          /\ UNCHANGED <<manifest, nadd>>
    /\ UNCHANGED <<nrequests, rm, call, ncalls, channel, conn, swarm, proc>>

DeployStack(j) ==
    /\ job[j].pc = "deploy"
    /\ \/ /\ job' = [job EXCEPT ![j].pc = "cleanup",
                                ![j].events = send_deployment_status(@, "success", "Starting deployment", None)]
          /\ UNCHANGED workspace
       \/ FailAfterCleanup(j, IF job[j].path = "update" THEN "Failed to update deployment"
                               ELSE "Failed to start deployment")
    /\ UNCHANGED <<manifest, nrequests, nadd, rm, call, ncalls, channel, conn, swarm, proc>>

\* The json! summary sent with the last update (its status entry, read from
\* the swarm by get_app_status, is left out).
response(j, metadata) ==
    [message |-> "Application created successfully", app_name |-> job[j].name,
     github_url |-> job[j].url, domain |-> metadata.domain, created_at |-> metadata.created_at]

Cleanup_escalating(j) ==
    /\ job[j].pc = "cleanup"
    /\ \/ /\ workspace' = remove_temp_dir(workspace, job[j].name)
          /\ job' = [job EXCEPT ![j].pc = "done",
                                ![j].cleanup = "removed",
                                ![j].events = send_deployment_status(@, "deployed", "deployed_info",
                                                                     Some(response(j, JobMetadata(j))))]
       \/ Fail(j, workspace, "Failed to remove temporary directory", "failed")
    /\ UNCHANGED <<manifest, nrequests, nadd, rm, call, ncalls, channel, conn, swarm, proc>>

\* remove_temp_dir after success: a failure is printed and ignored.
Cleanup(j) ==
    /\ job[j].pc = "cleanup"
    /\ \E removed \in BOOLEAN :
          /\ workspace' = IF removed THEN remove_temp_dir(workspace, job[j].name) ELSE workspace
          /\ job' = [job EXCEPT ![j].pc = "done",
                                ![j].cleanup = IF removed THEN "removed" ELSE "failed",
                                ![j].events = send_deployment_status(@, "deployed", "deployed_info",
                                                                     Some(response(j, JobMetadata(j))))]
    /\ UNCHANGED <<manifest, nrequests, nadd, rm, call, ncalls, channel, conn, swarm, proc>>

(***************************************************************************)
(* handle_remove_app: remove_service, then remove_app_compose as the       *)
(* three file operations it performs.                                      *)
(***************************************************************************)
RemoveRequest(n) ==
    /\ nrequests < MaxRequests
    /\ rm.pc = "idle"
    /\ rm' = [rm EXCEPT !.pc = "remove_service", !.name = n]
    /\ nrequests' = nrequests + 1
    /\ UNCHANGED <<manifest, workspace, job, nadd, call, ncalls, channel, conn, swarm, proc>>

RemoveService ==
    /\ rm.pc = "remove_service"
    /\ \/ rm' = [rm EXCEPT !.pc = "read"]
       \/ rm' = [rm EXCEPT !.pc = "rejected"]
    /\ UNCHANGED <<manifest, workspace, job, nrequests, nadd, call, ncalls, channel, conn, swarm, proc>>

RemoveRead ==
    /\ rm.pc = "read"
    /\ rm' = [rm EXCEPT !.pc = "create", !.new_content = remove_app_compose(manifest, rm.name).content]
    /\ UNCHANGED <<manifest, workspace, job, nrequests, nadd, call, ncalls, channel, conn, swarm, proc>>

RemoveCreate ==
    /\ rm.pc = "create"
    /\ manifest' = <<>>
    /\ rm' = [rm EXCEPT !.pc = "write"]
    /\ UNCHANGED <<workspace, job, nrequests, nadd, call, ncalls, channel, conn, swarm, proc>>

RemoveWrite ==
    /\ rm.pc = "write"
    /\ manifest' = write_at_start(manifest, rm.new_content)
    /\ rm' = [rm EXCEPT !.pc = "done"]
    /\ UNCHANGED <<workspace, job, nrequests, nadd, call, ncalls, channel, conn, swarm, proc>>

Init ==
    /\ manifest = MinimalDoc
    /\ workspace = [n \in BodyNames |-> "absent"]
    /\ job = [j \in Jobs |-> IdleJob]
    /\ nrequests = 0
    /\ nadd = [n \in BodyNames |-> 0]
    /\ rm = IdleRm
    /\ call = NoCall
    /\ ncalls = 0
    /\ channel = NewChannel
    /\ conn = [c \in Conns |-> NoConn]
    /\ swarm = [n \in ServiceNames |-> Absent]
    /\ proc = Serving

Next ==
    \/ \E j \in Jobs, n \in JobNames, u \in GithubUrls : Submit(j, n, u)
    \/ \E j \in Jobs : Validate(j)
    \/ \E j \in Jobs : CreateTempDir(j)
    \/ \E j \in Jobs : CloneRepo(j)
    \/ \E j \in Jobs : GenerateDockerfile(j)
    \/ \E j \in Jobs : BuildImage(j)
    \/ \E j \in Jobs : PushImage(j)
    \/ \E j \in Jobs : VerifApp(j)
    \/ \E j \in Jobs : AddToDeploy(j)
    \/ \E j \in Jobs : DeployStack(j)
    \/ \E j \in Jobs : Cleanup(j)
    \/ \E n \in JobNames : RemoveRequest(n)
    \/ RemoveService
    \/ RemoveRead
    \/ RemoveCreate
    \/ RemoveWrite

Spec == Init /\ [][Next]_vars

(***************************************************************************)
(* One task at a time, requests arriving one after the other, with the     *)
(* body's name unchecked and the errors the collaborators report on their  *)
(* streams told apart from clean runs.                                     *)
(***************************************************************************)
NextJob ==
    \/ \E n \in BodyNames, u \in GithubUrls : Submit(1, n, u)
    \/ Validate(1)
    \/ CreateTempDir(1)
    \/ CloneRepo(1)
    \/ GenerateDockerfile(1)
    \/ BuildImage(1)
    \/ BuildImageStreamError(1)
    \/ PushImage(1)
    \/ PushImageStreamError(1)
    \/ VerifApp(1)
    \/ AddToDeploy(1)
    \/ DeployStack(1)
    \/ Cleanup(1)

SpecJob == Init /\ [][NextJob]_vars

(***************************************************************************)
(* websocket.rs: the broadcast channel created in main and the tasks of    *)
(* handle_ws_connection.  An update is identified by its position in the   *)
(* order of the sends.                                                     *)
(***************************************************************************)
pipeline_vars == <<manifest, workspace, job, nrequests, nadd, rm, call, ncalls, swarm, proc>>

Emit_blocking ==
    /\ channel.tail < MaxEvents
    /\ \A c \in Conns : conn[c].status = "open" => Len(conn[c].queue) < QueueCapacity
    /\ channel' = [channel EXCEPT !.tail = @ + 1]
    /\ UNCHANGED <<conn, pipeline_vars>>

\* sender.send(status_update): the value is stored at the tail of the ring,
\* over the oldest one; the receiver kept by ws_route is always alive, so
\* the send returns Ok whether or not a connection is open.
Emit ==
    /\ channel.tail < MaxEvents
    /\ channel' = [channel EXCEPT !.tail = @ + 1]
    /\ UNCHANGED <<conn, pipeline_vars>>

Connect_replaying(c) ==
    /\ conn[c].status = "none"
    /\ \A b \in Conns : b < c => conn[b].status # "none"
    /\ conn' = [conn EXCEPT ![c] = [NoConn EXCEPT !.status = "open",
                                                  !.start = channel.tail + 1,
                                                  !.next = IF channel.tail > BusCapacity
                                                           THEN channel.tail - BusCapacity + 1 ELSE 1,
                                                  !.fwd = "recv",
                                                  !.out = "recv"]]
    /\ UNCHANGED <<channel, pipeline_vars>>

\* ws.on_upgrade: status_rx.resubscribe() reads from the tail on, and
\* handle_ws_connection spawns its two tasks.  Slots are taken in order.
Connect(c) ==
    /\ conn[c].status = "none"
    /\ \A b \in Conns : b < c => conn[b].status # "none"
    /\ conn' = [conn EXCEPT ![c] = [NoConn EXCEPT !.status = "open",
                                                  !.start = channel.tail + 1,
                                                  !.next = channel.tail + 1,
                                                  !.fwd = "recv",
                                                  !.out = "recv"]]
    /\ UNCHANGED <<channel, pipeline_vars>>

\* status_rx.recv().await returns: Err(Lagged(n)) when the ring has wrapped
\* past the receiver, which ends the `while let Ok` loop and the task; else
\* the next value.  With nothing to read the task stays suspended.
BusRecv(c) ==
    /\ conn[c].fwd = "recv"
    /\ conn[c].next <= channel.tail
    /\ IF conn[c].next <= channel.tail - BusCapacity
       THEN conn' = [conn EXCEPT ![c].lagged = (channel.tail - BusCapacity + 1) - conn[c].next,
                                 ![c].next = channel.tail - BusCapacity + 1,
                                 ![c].fwd = "ended"]
       ELSE conn' = [conn EXCEPT ![c].msg = conn[c].next,
                                 ![c].next = @ + 1,
                                 ![c].fwd = "send"]
    /\ UNCHANGED <<channel, pipeline_vars>>

\* tx.send(Message::text(msg)).await returns: Err when the writing task has
\* dropped the queue, which ends the task; Ok once the queue has room.
QueueSend(c) ==
    /\ conn[c].fwd = "send"
    /\ IF conn[c].out = "ended"
       THEN conn' = [conn EXCEPT ![c].fwd = "ended", ![c].msg = 0]
       ELSE /\ Len(conn[c].queue) < QueueCapacity
            /\ conn' = [conn EXCEPT ![c].queue = Append(@, conn[c].msg),
                                    ![c].msg = 0,
                                    ![c].fwd = "recv"]
    /\ UNCHANGED <<channel, pipeline_vars>>

\* rx.recv().await returns Some(msg) and ws_sender.send(msg).await returns:
\* the message is written to the socket, or the send fails on a closed
\* connection, which ends the task and drops the queue.
WsSend(c) ==
    /\ conn[c].out = "recv"
    /\ conn[c].queue # <<>>
    /\ IF conn[c].status = "closed"
       THEN conn' = [conn EXCEPT ![c].out = "ended", ![c].queue = <<>>]
       ELSE conn' = [conn EXCEPT ![c].delivered = Append(@, Head(conn[c].queue)),
                                 ![c].queue = Tail(@)]
    /\ UNCHANGED <<channel, pipeline_vars>>

\* rx.recv().await returns None: the forwarding task has ended and the
\* queue is empty.
QueueClosed(c) ==
    /\ conn[c].out = "recv"
    /\ conn[c].queue = <<>>
    /\ conn[c].fwd = "ended"
    /\ conn' = [conn EXCEPT ![c].out = "ended"]
    /\ UNCHANGED <<channel, pipeline_vars>>

\* The client disconnects: ws_receiver.next() yields None and
\* handle_ws_connection returns; the spawned tasks are not joined.
Close(c) ==
    /\ conn[c].status = "open"
    /\ conn' = [conn EXCEPT ![c].status = "closed"]
    /\ UNCHANGED <<channel, pipeline_vars>>

TaskStep ==
    \E c \in Conns : BusRecv(c) \/ QueueSend(c) \/ WsSend(c) \/ QueueClosed(c)

NextBus ==
    \/ Emit
    \/ \E c \in Conns : Connect(c)
    \/ \E c \in Conns : BusRecv(c)
    \/ \E c \in Conns : QueueSend(c)
    \/ \E c \in Conns : WsSend(c)
    \/ \E c \in Conns : QueueClosed(c)
    \/ \E c \in Conns : Close(c)

SpecBus == Init /\ [][NextBus]_vars

\* The runtime runs every task that is ready; nothing makes a producer send
\* or a client connect or disconnect.
SpecBusFair == SpecBus /\ WF_vars(TaskStep)

(***************************************************************************)
(* The document as the specification reads it: a ServiceBlock starts at a  *)
(* line that introduces a key at the service indentation level (two        *)
(* spaces) and extends through the following more-indented lines.          *)
(***************************************************************************)
ServiceIndent == 2

Indent(line) == skip_space(line, 1) - 1

IsBlockHeader(line) ==
    /\ Indent(line) = ServiceIndent
    /\ Len(line) > ServiceIndent
    /\ contains(line, ":")

BlockKey(line) ==
    LET c == CHOOSE p \in 1..Len(line) :
                 /\ SubSeq(line, p, p) = ":"
                 /\ \A q \in 1..(p - 1) : SubSeq(line, q, q) # ":"
    IN SubSeq(line, ServiceIndent + 1, c - 1)

HeadersOf(doc, n) == {i \in 1..Len(doc) : IsBlockHeader(doc[i]) /\ BlockKey(doc[i]) = n}

HasBlock(doc, n) == HeadersOf(doc, n) # {}

BlockCount(doc, n) == Cardinality(HeadersOf(doc, n))

InsideBlock(line) == Len(line) > 0 /\ Indent(line) > ServiceIndent /\ Indent(line) < Len(line)

\* Index of the last line of the block whose header is line i.
RECURSIVE BlockEnd(_, _)
BlockEnd(doc, i) == IF i < Len(doc) /\ InsideBlock(doc[i + 1]) THEN BlockEnd(doc, i + 1) ELSE i

\* The lines that belong to a block keyed n.
LinesOf(doc, n) == {l \in 1..Len(doc) : \E i \in HeadersOf(doc, n) : i <= l /\ l <= BlockEnd(doc, i)}

RECURSIVE Without(_, _, _)
Without(doc, drop, i) ==
    IF i > Len(doc) THEN <<>>
    ELSE (IF i \in drop THEN <<>> ELSE <<doc[i]>>) \o Without(doc, drop, i + 1)

\* The document with the full textual extent of every block keyed n deleted.
WithoutBlock(doc, n) == Without(doc, LinesOf(doc, n), 1)

IsReplicasField(line) == starts_with(SubSeq(line, Indent(line) + 1, Len(line)), "replicas:")

\* Index of the first replicas field inside the block whose header is line i, else 0.
ReplicasLine(doc, i) ==
    LET S == {l \in (i + 1)..BlockEnd(doc, i) : IsReplicasField(doc[l])}
    IN IF S = {} THEN 0 ELSE CHOOSE l \in S : \A m \in S : l <= m

\* The block add_to_deploy writes for a name, as it stands in the document.
BlockOfName(n) ==
    resultat(n, "3000", AppMetadata_new(n, "nodejs", RepoUrl, Now))

BlockOfJob(j) == BlockOfName(job[j].name)

HoldsIntact(doc, block) ==
    \E i \in 1..Len(doc) : i + Len(block) - 1 <= Len(doc) /\ SubSeq(doc, i, i + Len(block) - 1) = block

\* A task is inside its manifest section from the verif_app query until the
\* stack apply has returned.
InSection(j) == job[j].pc \in {"add_to_deploy", "deploy"}

\* The remove request has not written to the file.
RemoveUntouched == rm.pc \in {"idle", "remove_service", "rejected", "read", "create"}

(***************************************************************************)
(* The operator requests on a deployed stack, one at a time: the stack is  *)
(* applied at startup, a create request adds a block and applies the       *)
(* manifest again, start and stop scale the service in the swarm.          *)
(***************************************************************************)
\* The replica count a block declares (1 when it declares none).
DeclaredReplicas(doc, i) ==
    LET l == ReplicasLine(doc, i)
        line == IF l = 0 THEN "" ELSE doc[l]
        p == first_replicas(line, 1)
        d == skip_space(line, p + 9)
        text == SubSeq(line, d, skip_digits(line, d) - 1)
        S == {k \in 0..9 : to_string(k) = text}
    IN IF l = 0 \/ p = 0 \/ S = {} THEN 1 ELSE CHOOSE k \in S : TRUE

\* docker stack deploy -c nephelios.yml nephelios: every service of the
\* file is created or updated with the replicas the file declares; the
\* services the file does not name are left as they are.
deploy_nephelios_stack(sw, doc) ==
    [n \in ServiceNames |->
        IF HasBlock(doc, n)
        THEN DeclaredReplicas(doc, CHOOSE i \in HeadersOf(doc, n) : \A h \in HeadersOf(doc, n) : i <= h)
        ELSE sw[n]]

\* docker service scale nephelios_{app_name}={id}: fails when the swarm has
\* no such service.
scale_app(sw, app_name, id) ==
    IF sw[app_name] = Absent
    THEN [result |-> "Err", swarm |-> sw]
    ELSE [result |-> "Ok", swarm |-> [sw EXCEPT ![app_name] = id]]

\* Mutant: the service deletion reports success for a missing service.
remove_service_lenient(sw, app_name, reachable) ==
    IF ~reachable
    THEN [result |-> "Err", swarm |-> sw]
    ELSE [result |-> "Ok", swarm |-> [sw EXCEPT ![app_name] = Absent]]

\* docker.delete_service("nephelios_{app_name}"): fails when the daemon
\* cannot be reached or has no such service.
remove_service(sw, app_name, reachable) ==
    IF sw[app_name] = Absent \/ ~reachable
    THEN [result |-> "Err", swarm |-> sw]
    ELSE [result |-> "Ok", swarm |-> [sw EXCEPT ![app_name] = Absent]]

OpsInit ==
    /\ manifest \in InitialDocs
    /\ workspace = [n \in BodyNames |-> "absent"]
    /\ job = [j \in Jobs |-> IdleJob]
    /\ nrequests = 0
    /\ nadd = [n \in BodyNames |-> 0]
    /\ rm = IdleRm
    /\ call = NoCall
    /\ ncalls = 0
    /\ channel = NewChannel
    /\ conn = [c \in Conns |-> NoConn]
    /\ swarm = deploy_nephelios_stack([n \in ServiceNames |-> Absent], manifest)
    /\ proc = Serving

\* The manifest section of a create request that has built and pushed its
\* image: verif_app, add_to_deploy, deploy_nephelios_stack, which applies
\* the file or fails and leaves the swarm as it is.
CreateApp(n) ==
    /\ ncalls < MaxCalls
    /\ verif_app(manifest, n) = 0
    /\ \E applied \in BOOLEAN :
          LET r == add_to_deploy(manifest, n, "3000", DefaultMetadata(n))
          IN /\ manifest' = r.content
             /\ swarm' = IF applied THEN deploy_nephelios_stack(swarm, r.content) ELSE swarm
             /\ call' = [op |-> "create", name |-> n, k |-> add_replicas,
                         result |-> IF applied THEN r.result ELSE "Err",
                         found |-> 0, before |-> manifest]
    /\ ncalls' = ncalls + 1
    /\ UNCHANGED <<workspace, job, nrequests, nadd, rm, channel, conn, proc>>

\* handle_start_app: the result of scale_app is dropped.
StartApp(n) ==
    /\ LET scale == 1
           r == scale_app(swarm, n, scale)
       IN /\ swarm' = r.swarm
          /\ call' = [op |-> "start", name |-> n, k |-> scale, result |-> r.result,
                      found |-> -1, before |-> manifest]
    /\ UNCHANGED <<manifest, ncalls, workspace, job, nrequests, nadd, rm, channel, conn, proc>>

\* handle_stop_app
StopApp(n) ==
    /\ LET scale == 0
           r == scale_app(swarm, n, scale)
       IN /\ swarm' = r.swarm
          /\ call' = [op |-> "stop", name |-> n, k |-> scale, result |-> r.result,
                      found |-> -1, before |-> manifest]
    /\ UNCHANGED <<manifest, ncalls, workspace, job, nrequests, nadd, rm, channel, conn, proc>>

\* handle_remove_app: the Err of remove_service rejects the request before
\* remove_app_compose is called.
RemoveApp(n) ==
    /\ ncalls < MaxCalls
    /\ \E reachable \in BOOLEAN :
          LET r == remove_service(swarm, n, reachable)
          IN /\ swarm' = r.swarm
             /\ manifest' = IF r.result = "Ok" THEN remove_app_compose(manifest, n).content ELSE manifest
             /\ call' = [op |-> "remove_app", name |-> n, k |-> 0, result |-> r.result,
                         found |-> -1, before |-> manifest]
    /\ ncalls' = ncalls + 1
    /\ UNCHANGED <<workspace, job, nrequests, nadd, rm, channel, conn, proc>>

OpsNext ==
    \/ \E n \in AppNames : CreateApp(n)
    \/ \E n \in AppNames : StartApp(n)
    \/ \E n \in AppNames : StopApp(n)
    \/ \E n \in AppNames : RemoveApp(n)

SpecOps == OpsInit /\ [][OpsNext]_vars

(***************************************************************************)
(* main.rs: the server and the shutdown of the process.                    *)
(***************************************************************************)
Signals == {"SIGTERM", "SIGINT", "SIGHUP"}

\* A signal is delivered.  The task spawned by main listens to the three
\* of them and sends on the shutdown channel; the server was bound with a
\* graceful shutdown on ctrl_c, which is SIGINT alone, and stops accepting
\* connections on that one only.
Signal(s) ==
    /\ proc.pc = "serving"
    /\ proc.signal = "none"
    /\ proc' = [proc EXCEPT !.signal = s,
                            !.server = IF s = "SIGINT" THEN "draining" ELSE @]
    /\ UNCHANGED <<manifest, workspace, job, nrequests, nadd, rm, call, ncalls, channel, conn, swarm>>

\* A /create request reaches the server task, which runs until main
\* returns: handle_create_app spawns the pipeline.
CreateRequest(j, app_name, github_url) ==
    /\ proc.server = "accepting"
    /\ Submit(j, app_name, github_url)

\* tokio::select! on shutdown_rx.recv() and the server handle returns.
StartCleanup ==
    /\ proc.pc = "serving"
    /\ proc.signal # "none"
    /\ proc' = [proc EXCEPT !.pc = "disconnect"]
    /\ UNCHANGED <<manifest, workspace, job, nrequests, nadd, rm, call, ncalls, channel, conn, swarm>>

\* disconnect_from_overlay_network().await inside tokio::time::timeout: it
\* returns Ok or Err, or the timeout elapses first, which drops the whole
\* async block with the stack removal that follows in it.
Disconnect ==
    /\ proc.pc = "disconnect"
    /\ \E r \in {"Ok", "Err", "Elapsed"} :
          proc' = [proc EXCEPT !.detach = r,
                               !.pc = IF r = "Elapsed" THEN "prune" ELSE "stop_stack",
                               !.log = CASE r = "Ok" -> @
                                         [] r = "Err" -> @ \cup {"Failed to disconnect from overlay network"}
                                         [] r = "Elapsed" -> @ \cup {"Cleanup timed out"}]
    /\ UNCHANGED <<manifest, workspace, job, nrequests, nadd, rm, call, ncalls, channel, conn, swarm>>

\* stop_nephelios_stack(): docker stack rm nephelios removes the services.
\* The call blocks its thread until the command returns, so the timeout
\* does not elapse during it.
StopStack ==
    /\ proc.pc = "stop_stack"
    /\ \E r \in {"Ok", "Err"} :
          /\ proc' = [proc EXCEPT !.stack_rm = r,
                                  !.pc = "prune",
                                  !.log = IF r = "Err" THEN @ \cup {"Failed to terminate Nephelios Stack"} ELSE @]
          /\ swarm' = IF r = "Ok" THEN [n \in ServiceNames |-> Absent] ELSE swarm
    /\ UNCHANGED <<manifest, workspace, job, nrequests, nadd, rm, call, ncalls, channel, conn>>

\* leave_swarm when asked to, prune_images, and main returns: the runtime
\* is dropped and the server task with it.
Exit ==
    /\ proc.pc = "prune"
    /\ proc' = [proc EXCEPT !.pc = "exited", !.server = "stopped"]
    /\ UNCHANGED <<manifest, workspace, job, nrequests, nadd, rm, call, ncalls, channel, conn, swarm>>

MainNext ==
    \/ \E s \in Signals : Signal(s)
    \/ \E j \in Jobs, n \in JobNames, u \in GithubUrls : CreateRequest(j, n, u)
    \/ \E j \in Jobs : proc.pc # "exited" /\ Validate(j)
    \/ StartCleanup
    \/ Disconnect
    \/ StopStack
    \/ Exit

SpecMain == OpsInit /\ [][MainNext]_vars

(***************************************************************************)
(* One deployment task and the connections that observe it.  The task of   *)
(* slot 1 sends its updates on the channel: send_deployment_status returns *)
(* to the task once sender.send has stored the value, so every update sent *)
(* is on the channel before the task makes its next call.                  *)
(***************************************************************************)
Publish_blocking(j) ==
    /\ channel.tail < Len(job[j].events)
    /\ \A c \in Conns : conn[c].status = "open" => Len(conn[c].queue) < QueueCapacity
    /\ channel' = [channel EXCEPT !.tail = @ + 1]
    /\ UNCHANGED <<conn, pipeline_vars>>

\* sender.send(status_update) for an update the task has built.
Publish(j) ==
    /\ channel.tail < Len(job[j].events)
    /\ channel' = [channel EXCEPT !.tail = @ + 1]
    /\ UNCHANGED <<conn, pipeline_vars>>

\* A step of the task, its updates being sent.
ObservedStep ==
    /\ channel.tail = Len(job[1].events)
    /\ NextJob
    /\ nrequests' <= 1

\* A step of a connection: a client connects or disconnects, or one of its
\* forwarding tasks runs.
ObserverStep ==
    \/ Connect(1)
    \/ Close(1)
    \/ BusRecv(1)
    \/ QueueSend(1)
    \/ WsSend(1)
    \/ QueueClosed(1)

NextObserved ==
    \/ ObservedStep
    \/ Publish(1)
    \/ ObserverStep

SpecObserved == Init /\ [][NextObserved]_vars

\* C1: in every reachable state the manifest holds at most one ServiceBlock
\* per application name, whatever create and remove requests interleave.
C1_OneBlockPerName ==
    LET H == {i \in 1..Len(manifest) : IsBlockHeader(manifest[i])}
    IN \A i, k \in H : BlockKey(manifest[i]) = BlockKey(manifest[k]) => i = k

\* C2: two deployment jobs with the same name are never both between their
\* Exists query and the end of their stack apply.
C2_SectionsExcludeEachOther ==
    \A j1, j2 \in Jobs :
        (j1 # j2 /\ job[j1].name = job[j2].name) => ~(InSection(j1) /\ InSection(j2))

\* C3: mutations are serialized, so once a Remove of name a has finished,
\* the block that an Add of another name b put in the file is present and
\* intact, however the two calls were interleaved.
C3_AddSurvivesRemove ==
    \A j \in Jobs :
        (job[j].added /\ rm.pc = "done" /\ rm.name # job[j].name)
            => HoldsIntact(manifest, BlockOfJob(j))

\* C4: when Add(a) and Add(b) for distinct names are the Adds made on a
\* document that held neither, whatever their interleaving, the document
\* holds the block of a and the block of b exactly once each and whole.
C4_ConcurrentAddsBothKept ==
    \A a, b \in JobNames :
        (a # b /\ nadd[a] = 1 /\ nadd[b] = 1 /\ RemoveUntouched)
            => /\ BlockCount(manifest, a) = 1
               /\ BlockCount(manifest, b) = 1
               /\ HoldsIntact(manifest, BlockOfName(a))
               /\ HoldsIntact(manifest, BlockOfName(b))

\* Both tasks had passed verif_app before either block was written, and both
\* blocks are now in the file.
C4_Witness ==
    /\ job[1].added /\ job[2].added
    /\ job[1].pc = "deploy" /\ job[2].pc = "deploy"
    /\ job[1].name # job[2].name
    /\ nadd[job[1].name] = 1 /\ nadd[job[2].name] = 1
    /\ RemoveUntouched
    /\ BlockCount(manifest, job[1].name) = 1
    /\ BlockCount(manifest, job[2].name) = 1

\* C5: Exists(name) answers true exactly when the document holds a block
\* whose key is name, whatever other text contains name as a substring.
C5_ExistsIsExactKey ==
    call.op = "exists" => (call.found = 1 <=> HasBlock(call.before, call.name))

\* C6: Exists(n) called right after Add(n) answers true, and called right
\* after Remove(n) answers false.
C6_ExistsAfterAddRemove ==
    [][(call'.op = "exists" /\ call'.name = call.name)
          => /\ call.op = "add" => call'.found = 1
             /\ call.op = "remove" => call'.found = 0]_vars

\* C7: a second Add(n) directly after an Add(n) fails with AlreadyExists and
\* leaves the document as it was.
C7_SecondAddRejected ==
    [][(call.op = "add" /\ call'.op = "add" /\ call'.name = call.name)
          => (call'.result = "AlreadyExists" /\ manifest' = manifest)]_vars

\* C8: Remove(n) on a document with a block for n deletes exactly the lines
\* of n's block; every other block and every boilerplate line stays as it
\* was, wherever the other block sits.
C8_RemoveDeletesOnlyTheBlock ==
    (call.op = "remove" /\ HasBlock(call.before, call.name))
        => manifest = WithoutBlock(call.before, call.name)

\* C9: Remove(name) on a document without a block keyed name fails with
\* NotFound.
C9_RemoveAbsentIsNotFound ==
    (call.op = "remove" /\ ~HasBlock(call.before, call.name)) => call.result = "NotFound"

\* C10: SetReplicas(n, k) on a document with a block for n (holding a
\* replicas field) changes the value of the first replicas field of that
\* block to k and nothing else in the document.
C10_SetReplicasChangesOnlyThatField ==
    (/\ call.op = "set_replicas"
     /\ BlockCount(call.before, call.name) = 1
     /\ \A i \in HeadersOf(call.before, call.name) : ReplicasLine(call.before, i) # 0)
        => LET d == call.before
               i == CHOOSE h \in HeadersOf(d, call.name) : TRUE
               j == ReplicasLine(d, i)
           IN /\ Len(manifest) = Len(d)
              /\ \A l \in 1..Len(d) : l # j => manifest[l] = d[l]
              /\ manifest[j] = SubSeq(d[j], 1, Indent(d[j])) \o "replicas: " \o to_string(call.k)

\* C11: SetReplicas(n, k) fails with NotFound and leaves the document
\* unchanged whenever no block is keyed exactly n or that block holds no
\* replicas field, whatever other blocks hold.
C11_SetReplicasAbsentIsNotFound ==
    (/\ call.op = "set_replicas"
     /\ \/ ~HasBlock(call.before, call.name)
        \/ \E i \in HeadersOf(call.before, call.name) : ReplicasLine(call.before, i) = 0)
        => (call.result = "NotFound" /\ manifest = call.before)

\* C12: Add(n) on a document without a block for n appends the block: the
\* prior document is a prefix of the new one, and what follows it is the
\* block rendered for n.
C12_AddAppendsAfterPrefix ==
    (call.op = "add" /\ ~HasBlock(call.before, call.name))
        => /\ Len(manifest) = Len(call.before) + Len(resultat(call.name, "3000", DefaultMetadata(call.name)))
           /\ SubSeq(manifest, 1, Len(call.before)) = call.before
           /\ SubSeq(manifest, Len(call.before) + 1, Len(manifest))
                  = resultat(call.name, "3000", DefaultMetadata(call.name))

\* An Add on a document that already holds other blocks.
C12_Witness ==
    /\ call.op = "add"
    /\ ~HasBlock(call.before, call.name)
    /\ Len(call.before) > Len(MinimalDoc)
    /\ manifest # call.before

(***************************************************************************)
(* The updates of a task, and the phases its position shows it has entered *)
(* and left.                                                               *)
(***************************************************************************)
CountStatus(events, status) == Cardinality({i \in 1..Len(events) : events[i].status = status})

HasEvent(events, status, step) ==
    \E i \in 1..Len(events) : events[i].status = status /\ events[i].step = step

LastStatus(events) == IF events = <<>> THEN "" ELSE events[Len(events)].status

\* Positions of a task whose workspace directory has been created.
AfterWorkspace == {"clone_repo", "generate_dockerfile", "build_image", "push_image",
                   "verif_app", "add_to_deploy", "deploy"}

\* How many of the phases fetch, build, publish and reconcile a task at this
\* position has entered.
PhasesEntered(pc) ==
    CASE pc \in {"create_temp_dir", "clone_repo", "generate_dockerfile"} -> 1
      [] pc = "build_image" -> 2
      [] pc \in {"push_image", "verif_app", "add_to_deploy"} -> 3
      [] pc \in {"deploy", "cleanup", "done"} -> 4
      [] OTHER -> 0

\* C13: a job submitted with a missing or empty sourceURL stops at
\* validation: none of its steps changes the workspace or the manifest, it
\* never reaches a collaborator, and it emits exactly one event, an error.
C13_EmptyUrlStopsAtValidation ==
    [][\A j \in Jobs :
          (job'[j].pc # "idle" /\ job'[j].url = "")
              => /\ job'[j].pc \in {"validate", "rejected"}
                 /\ job'[j].pc = "validate" => job'[j].events = <<>>
                 /\ job'[j].pc = "rejected"
                        => (Len(job'[j].events) = 1 /\ job'[j].events[1].status = "error")
                 /\ job'[j] # job[j]
                        => (manifest' = manifest /\ workspace' = workspace /\ nadd' = nadd)]_vars

\* A task with an empty github_url has returned.
C13_Witness ==
    \E j \in Jobs : job[j].pc = "rejected" /\ job[j].url = "" /\ Len(job[j].events) = 1

\* C14: a job submitted with an empty name is stopped by validation: it emits
\* a single error event and goes no further (no workspace, no build, no
\* manifest access, no stack apply).
C14_EmptyNameStopsAtValidation ==
    \A j \in Jobs :
        (job[j].pc # "idle" /\ job[j].name = "")
            => /\ job[j].pc \in {"validate", "rejected"}
               /\ job[j].pc = "rejected" => Len(job[j].events) = 1

\* C15: the reply to a create request is 400 exactly when the github_url or
\* the name is missing or empty, and the acknowledgment otherwise.
C15_ReplyReflectsValidation ==
    \A j \in Jobs :
        job[j].pc # "idle"
            => IF job[j].url = "" \/ job[j].name = ""
               THEN job[j].response = BAD_REQUEST
               ELSE job[j].response = CREATED

\* C16: a job that has failed after validation has sent an error update
\* before it terminated.
C16_FailureIsSurfaced ==
    \A j \in Jobs : job[j].pc = "failed" => LastStatus(job[j].events) = "error"

\* C17: a task that fails in a phase entered after its workspace directory
\* was created (the invalid path case included) calls remove_temp_dir before
\* it returns.
C17_FailureRemovesWorkspace ==
    [][\A j \in Jobs :
          (/\ job[j].pc # "failed"
           /\ job'[j].pc = "failed"
           /\ \/ job[j].pc \in AfterWorkspace
              \/ HasEvent(job'[j].events, "error", "Invalid temp directory path"))
              => job'[j].cleanup \in {"removed", "failed"}]_vars

\* C18: a job whose builder or whose registry push reported an error is
\* failed: it is at no later position and has sent no success update for
\* the build, nor the update that follows a push.
C18_ReportedErrorIsTerminal ==
    \A j \in Jobs :
        /\ "build" \in job[j].reported
               => /\ job[j].pc = "failed"
                  /\ ~HasEvent(job[j].events, "success", "Building Docker image")
        /\ "push" \in job[j].reported
               => /\ job[j].pc = "failed"
                  /\ ~HasEvent(job[j].events, "in_progress", "Starting deployment")

\* C19: a task has sent one in_progress update for each of the phases fetch,
\* build, publish and reconcile it has entered, and a task that is done has
\* sent one success update for each of the four.
C19_OneEntryAndExitPerPhase ==
    \A j \in Jobs :
        /\ job[j].pc \notin {"idle", "validate", "rejected", "failed"}
               => CountStatus(job[j].events, "in_progress") = PhasesEntered(job[j].pc)
        /\ job[j].pc = "done" => CountStatus(job[j].events, "success") = PhasesEntered("done")

\* C20: the step that resolves a job takes the update path exactly when the
\* manifest holds a block keyed by the job's name, and then leaves the
\* manifest as it is; otherwise the job goes on to add_to_deploy, which
\* appends the block with replicas 1 before the stack is applied.
C20_ResolvingDecidesByExists ==
    [][\A j \in Jobs :
          /\ (job[j].pc = "verif_app" /\ job'[j].pc # "verif_app")
                 => IF HasBlock(manifest, job[j].name)
                    THEN job'[j].pc = "deploy" /\ job'[j].path = "update" /\ manifest' = manifest
                    ELSE job'[j].pc = "add_to_deploy" /\ job'[j].path = "create"
          /\ (job[j].pc = "add_to_deploy" /\ job'[j].pc = "deploy")
                 => /\ BlockCount(manifest', job[j].name) = 1
                    /\ \A i \in HeadersOf(manifest', job[j].name) :
                           ReplicasLine(manifest', i) # 0
                           /\ contains(manifest'[ReplicasLine(manifest', i)], "replicas: 1")]_vars

\* The position of a task in the sequence of its calls.
Rank(pc) ==
    CASE pc = "idle" -> 0
      [] pc = "validate" -> 1
      [] pc = "create_temp_dir" -> 2
      [] pc = "clone_repo" -> 3
      [] pc = "generate_dockerfile" -> 4
      [] pc = "build_image" -> 5
      [] pc = "push_image" -> 6
      [] pc = "verif_app" -> 7
      [] pc = "add_to_deploy" -> 8
      [] pc = "deploy" -> 9
      [] pc = "cleanup" -> 10
      [] OTHER -> 11

\* The updates of a run without failure, in the order of its phases.
PhaseEvents ==
    << [status |-> "in_progress", step |-> "Cloning repository"],
       [status |-> "success", step |-> "Cloning repository"],
       [status |-> "in_progress", step |-> "Building Docker image"],
       [status |-> "success", step |-> "Building Docker image"],
       [status |-> "in_progress", step |-> "Starting deployment"],
       [status |-> "success", step |-> "Starting deployment"],
       [status |-> "deployed", step |-> "deployed_info"] >>

\* The reasons a phase gives when it fails.
PhaseFailures ==
    {"Failed to clone repository", "Failed to generate Dockerfile", "Failed to build Docker image",
     "Failed to add app to deploy file", "Failed to update deployment", "Failed to start deployment"}

\* C21: when a job for a name reaches Completed, the manifest holds exactly
\* one block keyed by that name, with replicas 1 if the job added it, also
\* when the name occurred in the manifest only inside other text.
C21_CompletedJobHasOneBlock ==
    \A j \in Jobs :
        (job[j].pc = "done" /\ job[j].name # "")
            => /\ BlockCount(manifest, job[j].name) = 1
               /\ job[j].added
                      => \A i \in HeadersOf(manifest, job[j].name) :
                             ReplicasLine(manifest, i) # 0
                             /\ contains(manifest[ReplicasLine(manifest, i)], "replicas: 1")

C23_PhasesInOrder ==
    \A j \in Jobs :
        /\ \A i \in 1..Len(job[j].events) :
               \/ job[j].events[i].status = "error" /\ i = Len(job[j].events)
               \/ /\ i <= Len(PhaseEvents)
                  /\ job[j].events[i].status = PhaseEvents[i].status
                  /\ job[j].events[i].step = PhaseEvents[i].step
        /\ (Rank(job[j].pc) > Rank("build_image") /\ job[j].pc # "failed")
               => "build" \notin job[j].reported
        /\ (Rank(job[j].pc) > Rank("push_image") /\ job[j].pc # "failed")
               => "push" \notin job[j].reported

\* C24: every step of a task moves it forward in the sequence of its calls,
\* so no call is made twice, and a task that has sent an error update has
\* returned; only a new request starts a task again.
C24_NoRetry ==
    [][\A j \in Jobs :
          job'[j] # job[j]
              => /\ \/ job'[j].pc = "validate" /\ (job[j].pc = "idle" \/ Terminated(j))
                    \/ Rank(job'[j].pc) > Rank(job[j].pc)
                 /\ CountStatus(job'[j].events, "error") > 0
                        => job'[j].pc \in {"rejected", "failed"}]_vars

\* A task has failed to clone and has returned.
C24_Witness ==
    \E j \in Jobs :
        job[j].pc = "failed" /\ HasEvent(job[j].events, "error", "Failed to clone repository")

\* C25: a task whose remove_temp_dir failed ends as it would have
\* otherwise: done with its final update on the success path, failed with
\* the reason of the failing phase on a failure path.
C25_CleanupFailureKeepsOutcome ==
    \A j \in Jobs :
        job[j].cleanup = "failed"
            => \/ /\ job[j].pc = "done"
                  /\ LastStatus(job[j].events) = "deployed"
               \/ /\ job[j].pc = "failed"
                  /\ LastStatus(job[j].events) = "error"
                  /\ job[j].events[Len(job[j].events)].step \in PhaseFailures

\* A deployment has completed although its workspace could not be removed.
C25_Witness ==
    \E j \in Jobs :
        job[j].pc = "done" /\ job[j].cleanup = "failed" /\ workspace[job[j].name] # "absent"

\* The updates a connection has taken from the channel and not dropped.
Taken(c) ==
    conn[c].delivered \o conn[c].queue \o (IF conn[c].fwd = "send" THEN <<conn[c].msg>> ELSE <<>>)

\* C26: a subscriber whose receiver was told that the ring wrapped past its
\* position goes on: its connection being open, its forwarding tasks are
\* still running to deliver what is sent afterwards.
C26_LaggedSubscriberGoesOn ==
    \A c \in Conns :
        (conn[c].status = "open" /\ conn[c].lagged > 0)
            => (conn[c].fwd # "ended" /\ conn[c].out # "ended")

\* C27: a connection is sent the updates emitted after it subscribed, each
\* once and in the order of emission, and none emitted before; as long as
\* it has not lagged it has skipped none.
C27_SubscriptionStartsAtTail ==
    \A c \in Conns :
        conn[c].status # "none"
            => /\ \A i \in 1..Len(conn[c].delivered) : conn[c].delivered[i] = conn[c].start + i - 1
               /\ (conn[c].lagged = 0 /\ conn[c].out # "ended")
                      => /\ \A i \in 1..Len(Taken(c)) : Taken(c)[i] = conn[c].start + i - 1
                         /\ conn[c].next = conn[c].start + Len(Taken(c))

\* A connection opened after some updates were emitted has been sent two.
C27_Witness ==
    \E c \in Conns : conn[c].start > 1 /\ Len(conn[c].delivered) >= 2

\* C28: a producer can always send: no state of the connections, none being
\* open or some being stalled with a full queue, disables the send.
C28_EmitNeverBlocks ==
    channel.tail < MaxEvents => ENABLED Emit

\* The ring has wrapped past a connection whose forwarding task is waiting
\* for room in a full queue.
C28_Witness ==
    \E c \in Conns :
        /\ conn[c].status = "open"
        /\ conn[c].fwd = "send"
        /\ Len(conn[c].queue) = QueueCapacity
        /\ conn[c].next <= channel.tail - BusCapacity

\* C29: after a connection is closed, its receiver and its two forwarding
\* tasks eventually terminate.  Behaviours that send the last update the
\* model allows are left aside, so that a violation is a behaviour in which
\* a producer could still send and the tasks are suspended all the same.
C29_CloseReleasesTasks ==
    \A c \in Conns :
        (conn[c].status = "closed")
            ~> ((conn[c].fwd = "ended" /\ conn[c].out = "ended") \/ channel.tail = MaxEvents)

\* C30: after a stop request for an application the manifest holds, the
\* replicas recorded in its block are 0, and after a start request they
\* are 1.
C30_StartStopRecordedInManifest ==
    (call.op \in {"start", "stop"} /\ HasBlock(manifest, call.name))
        => \A i \in HeadersOf(manifest, call.name) : DeclaredReplicas(manifest, i) = call.k

\* C31: once a termination signal has been received, no /create request
\* starts a pipeline.
C31_NoJobAfterSignal ==
    [][\A j \in Jobs : (job'[j] # job[j] /\ job'[j].pc = "validate") => proc.signal = "none"]_vars

\* C32: the process that has exited after a signal has run both teardown
\* steps, the network detachment and then the stack removal, and has
\* printed every failure of them.
C32_TeardownRunsBothSteps ==
    proc.pc = "exited"
        => /\ proc.detach # "none"
           /\ proc.stack_rm # "none"
           /\ proc.detach = "Err" => "Failed to disconnect from overlay network" \in proc.log
           /\ proc.stack_rm = "Err" => "Failed to terminate Nephelios Stack" \in proc.log

\* Reading a block back: the line without its indentation, the values of
\* the label entries `- "key=value"` of the block whose header is line i,
\* and the values of its image field.
Stripped(line) == SubSeq(line, Indent(line) + 1, Len(line))

LabelValues(doc, i, key) ==
    LET prefix == "- \"" \o key \o "="
    IN {SubSeq(Stripped(doc[l]), Len(prefix) + 1, Len(Stripped(doc[l])) - 1) :
            l \in {m \in (i + 1)..BlockEnd(doc, i) :
                      /\ starts_with(Stripped(doc[m]), prefix)
                      /\ Len(Stripped(doc[m])) > Len(prefix)
                      /\ SubSeq(doc[m], Len(doc[m]), Len(doc[m])) = "\""}}

ImageValues(doc, i) ==
    {SubSeq(Stripped(doc[l]), Len("image: ") + 1, Len(Stripped(doc[l]))) :
        l \in {m \in (i + 1)..BlockEnd(doc, i) : starts_with(Stripped(doc[m]), "image: ")}}

\* C33: after an Add of a name the document had no block for, the block
\* read back for the name carries the labels name, type, github_url,
\* domain and created_at of the metadata, a routing rule on the host
\* name.localhost, which is the domain, and the image registry:5000/name.
C33_AddReadsBack ==
    (call.op = "add" /\ call.result = "Ok" /\ ~HasBlock(call.before, call.name))
        => /\ BlockCount(manifest, call.name) = 1
           /\ \A i \in HeadersOf(manifest, call.name) :
                 /\ LabelValues(manifest, i, "com.myapp.name") = {call.name}
                 /\ LabelValues(manifest, i, "com.myapp.type") = {"nodejs"}
                 /\ LabelValues(manifest, i, "com.myapp.github_url") = {RepoUrl}
                 /\ LabelValues(manifest, i, "com.myapp.domain") = {call.name \o ".localhost"}
                 /\ LabelValues(manifest, i, "com.myapp.created_at") = {Now}
                 /\ LabelValues(manifest, i, "traefik.http.routers." \o call.name \o ".rule")
                        = {"Host('" \o call.name \o ".localhost')"}
                 /\ ImageValues(manifest, i) = {"registry:5000/" \o call.name \o ":latest"}

\* An Add has been made on a document that holds other blocks.
C33_Witness ==
    /\ call.op = "add"
    /\ call.result = "Ok"
    /\ ~HasBlock(call.before, call.name)
    /\ HasBlock(call.before, "traefik")
    /\ HasBlock(manifest, call.name)

\* C34: a job that has failed has left no block of its own in the
\* manifest: the block it added before the stack apply failed is gone.
C34_FailedJobLeavesNoBlock ==
    \A j \in Jobs :
        (job[j].pc = "failed" /\ job[j].added) => ~HoldsIntact(manifest, BlockOfJob(j))

\* A task holds a workspace from the creation of its directory to the end
\* of its build.
HoldsWorkspace(j) == job[j].pc \in {"clone_repo", "generate_dockerfile", "build_image"}

\* C35: no step of another task changes the directory of a task that
\* holds its workspace, whether the two tasks have the same name or not.
C35_WorkspaceIsPrivate ==
    [][\A j \in Jobs :
          (HoldsWorkspace(j) /\ job'[j] = job[j])
              => workspace'[job[j].name] = workspace[job[j].name]]_vars

\* The updates that end a job on the bus.
TerminalEvents(events) == {i \in 1..Len(events) : events[i].status \in {"error", "deployed"}}

\* C36: a job sends at most one terminal update, an error or the final
\* deployed one, nothing after it, and a job that has terminated has sent
\* one.
C36_OneTerminalOutcome ==
    \A j \in Jobs :
        /\ Cardinality(TerminalEvents(job[j].events)) <= 1
        /\ \A i \in TerminalEvents(job[j].events) : i = Len(job[j].events)
        /\ Terminated(j) => Cardinality(TerminalEvents(job[j].events)) = 1

C38_StopSurvivesReconcile ==
    [][\A n \in AppNames :
          (swarm[n] = 0 /\ call'.op = "create" /\ call'.result = "Ok" /\ call'.name # n /\ ncalls' # ncalls)
              => swarm'[n] = 0]_vars

\* C39: a Remove that follows the Add of the same name, on a document that
\* had no block for the name, gives back the document as it was before
\* the Add, line for line.
C39_AddRemoveRoundTrip ==
    [][(/\ call.op = "add"
        /\ call.result = "Ok"
        /\ ~HasBlock(call.before, call.name)
        /\ call'.op = "remove"
        /\ call'.name = call.name
        /\ ncalls' # ncalls)
          => manifest' = call.before]_vars

\* C40: with a connection that connects, stalls, lags or disconnects at
\* any time, every step either is a step of the task as it runs with no
\* connection at all, or leaves the task, its updates and the manifest as
\* they are; and the send of an update the task has built is never held.
C40_ObserversDoNotInterfere ==
    /\ [][NextJob \/ UNCHANGED pipeline_vars]_vars
    /\ [](channel.tail < Len(job[1].events) => ENABLED Publish(1))

\* The task has completed while its connection, stalled with a full queue,
\* had been passed by the ring.
C40_Witness ==
    /\ job[1].pc = "done"
    /\ conn[1].status = "open"
    /\ conn[1].lagged > 0

====
